---- MODULE Spec2Model ----
(***************************************************************************)
(* Model of src/api/videos.ts: handlerUploadVideo, getVideoAspectRatio and *)
(* processVideoForFastStart.                                               *)
(*                                                                         *)
(* The runtime is single-threaded: a handler runs without interruption     *)
(* from one `await` to the next.  Every action below is one such segment   *)
(* of one request, together with the effect of the awaited operation (the  *)
(* file write, the subprocess, the object-storage put, the file removal).  *)
(* Requests interleave at the awaits only.                                 *)
(***************************************************************************)
EXTENDS Integers, Sequences, FiniteSets, TLC

VARIABLES
    db,        \* record store: video id -> record
    fs,        \* local file system: path -> file or Absent
    s3,        \* object storage: key -> object or Absent
    pc,        \* per request: the await it is suspended at
    input,     \* per request: path parameter, credential check result, form field
    video,     \* per request: the record read at line 24 (local variable `video`)
    aspect,    \* per request: local variable `aspectRatio` of the handler
    calls,     \* per request: how often each side-effecting operation was started
    rmState,   \* per request: state of the two rm() promises of lines 63-64
    outcome,   \* per request: the response, or the error thrown
    probeIn,   \* the probing subprocess' result handed to the classification
    probeOut   \* what getVideoAspectRatio made of probeIn

vars == <<db, fs, s3, pc, input, video, aspect, calls, rmState, outcome, probeIn, probeOut>>
handlerVars == <<db, fs, s3, pc, input, video, aspect, calls, rmState, outcome>>

----------------------------------------------------------------------------
(* Bounds *)

NumReqs == 2        \* requests in flight together
MaxDim  == 20       \* widths and heights 0..MaxDim given to the classification

Reqs == 1..NumReqs

\* an absent string, and an absent record (null, a missing file or object)
None == "none"
Absent == [absent |-> TRUE]

----------------------------------------------------------------------------
(* Configuration and the record store's content *)

S3Bucket == "bucket"
S3Region == "region"

Users    == {"u1", "u2"}
\* "v1" has a record, owned by "u1"; "v2" has none; the empty string is a
\* missing path parameter
NoParam  == ""
VideoIds == {"v1"}
ParamValues == {NoParam, "v1", "v2"}
Owner(id) == "u1"

ShiftLeft(a, n) == a * 2^n
MAX_UPLOAD_SIZE == ShiftLeft(1, 30)

----------------------------------------------------------------------------
(* Uploaded files and what the external tools make of their bytes *)

\* What ffprobe prints for a file's bytes: exit code, stderr text, and the parsed
\* stdout (hasStreams: the JSON object has a "streams" member; streams: its
\* elements, each <<width, height>>).
ProbeResult(code, err, has, strs) ==
    [exitCode |-> code, stderr |-> err, hasStreams |-> has, streams |-> strs]

Media == {"corrupt", "nostreams", "landscape"}

FfprobeOn(media) ==
    CASE media = "corrupt"   -> ProbeResult(2, "bad file", FALSE, <<>>)
      [] media = "nostreams" -> ProbeResult(0, "", TRUE, <<>>)
      [] media = "landscape" -> ProbeResult(0, "", TRUE, << <<1920, 1080>> >>)

\* The form field "video": null, a string, or a File with size, type and bytes.
FormField(k, sz, ty, m) == [kind |-> k, size |-> sz, type |-> ty, media |-> m]
NoField     == FormField("null", 0, "", None)
StringField == FormField("string", 0, "", None)
\* no request yet
Unread      == FormField("unread", 0, "", None)

SmallSize == 50 * 2^20
Sizes == {SmallSize, MAX_UPLOAD_SIZE, MAX_UPLOAD_SIZE + 1}
Types == {"video/mp4", "video/webm"}

\* Every size with every type, and every kind of content.  The files at the
\* size limit hold bytes ffprobe rejects: what follows the probe does not depend
\* on the size.
FormValues ==
    {NoField, StringField}
    \cup {FormField("File", sz, ty, "corrupt") : sz \in Sizes, ty \in Types}
    \cup {FormField("File", SmallSize, "video/mp4", m) : m \in Media}

\* Bytes on disk or in object storage: whose upload they come from, what they
\* hold, and whether ffmpeg has rewritten them for fast start.
Bytes(r, m, fast) == [origin |-> r, media |-> m, faststart |-> fast]
\* A file: its bytes and the request whose step wrote it.
FileOf(b, r) == [bytes |-> b, writer |-> r]
\* An object in storage: its bytes and the request that put it.
ObjectOf(b, r) == [bytes |-> b, uploader |-> r]

----------------------------------------------------------------------------
(* Errors and responses *)

Pending == [kind |-> "pending", class |-> "", message |-> "", body |-> Absent]
Thrown(cls, msg) == [kind |-> "error", class |-> cls, message |-> msg, body |-> Absent]
respondWithJSON(status, payload) ==
    [kind |-> "response", class |-> "", message |-> ToString(status), body |-> payload]

----------------------------------------------------------------------------
(* getVideoAspectRatio, lines 94-110: from the subprocess' result to the   *)
(* classification or the error thrown                                      *)

\* width/height as the code computes it.  The quotient of two integers below
\* 2^52/10 compares with the literals 1.7, 1.8, 0.5, 0.6 as the exact fraction
\* does (the nearest distinct fraction is further away than one ulp), so the
\* quotient is kept as a fraction; x/0 is Infinity and 0/0 is NaN.
Divide(w, h) ==
    IF h = 0
    THEN IF w = 0 THEN [nan |-> TRUE, inf |-> FALSE, num |-> 0, den |-> 1]
                  ELSE [nan |-> FALSE, inf |-> TRUE, num |-> 1, den |-> 1]
    ELSE [nan |-> FALSE, inf |-> FALSE, num |-> w, den |-> h]

\* q > n/10 and q < n/10 for a decimal literal n/10
Greater(q, n) ==
    /\ ~q.nan
    /\ (q.inf \/ q.num * 10 > n * q.den)
Less(q, n) ==
    /\ ~q.nan
    /\ ~q.inf
    /\ q.num * 10 < n * q.den

\* Classify with the bounds included (>= and <= for > and <)
ClassifyInclusive(width, height) ==
    LET aspectRatio == Divide(width, height)
    IN  IF ~Less(aspectRatio, 17) /\ ~Greater(aspectRatio, 18) /\ ~aspectRatio.nan
        THEN "landscape"
        ELSE IF ~Less(aspectRatio, 5) /\ ~Greater(aspectRatio, 6) /\ ~aspectRatio.nan
        THEN "portrait"
        ELSE "other"

Classify(width, height) ==
    LET aspectRatio == Divide(width, height)
    IN  IF Greater(aspectRatio, 17) /\ Less(aspectRatio, 18) THEN "landscape"
        ELSE IF Greater(aspectRatio, 5) /\ Less(aspectRatio, 6) THEN "portrait"
        ELSE "other"

Returned(v) == [ok |-> TRUE, value |-> v, error |-> Pending]
Raised(e)   == [ok |-> FALSE, value |-> None, error |-> e]

getVideoAspectRatio(res) ==
    IF res.exitCode # 0
    THEN Raised(Thrown("Error", "ffprobe error: " \o res.stderr))
    ELSE IF ~res.hasStreams \/ Len(res.streams) = 0
    THEN Raised(Thrown("Error", "No video streams found"))
    ELSE Returned(Classify(res.streams[1][1], res.streams[1][2]))

----------------------------------------------------------------------------
(* Paths, keys and URLs, lines 49, 55, 58, 114 *)

TempFilePath(videoId) == "/tmp/" \o videoId \o ".mp4"
ProcessedFilePath(inputFilePath) == inputFilePath \o ".processed.mp4"
Key(aspectRatio, videoId) == aspectRatio \o "/" \o videoId \o ".mp4"
VideoURL(key) ==
    "https://" \o S3Bucket \o ".s3." \o S3Region \o ".amazonaws.com/" \o key

Classes == {"landscape", "portrait", "other"}
Paths == {TempFilePath(v) : v \in VideoIds}
         \cup {ProcessedFilePath(TempFilePath(v)) : v \in VideoIds}
Keys  == {Key(a, v) : a \in Classes, v \in VideoIds}

----------------------------------------------------------------------------
(* The collaborators: record store and object storage *)

NoURL == "null"
Record(id, user, url) == [id |-> id, userID |-> user, videoURL |-> url]

getVideo(store, videoId) ==
    IF videoId \in DOMAIN store THEN store[videoId] ELSE Absent

updateVideo(store, v) == [store EXCEPT ![v.id] = v]

uploadVideoToS3(storage, key, file, r) ==
    [storage EXCEPT ![key] = ObjectOf(file.bytes, r)]

----------------------------------------------------------------------------
(* The gates of handlerUploadVideo *)

Unauthorized == "unauthorized"

\* RequestGate without the ownership check of lines 28-32
RequestGateNoOwnership(videoId, auth, store) ==
    IF videoId = NoParam
    THEN Thrown("BadRequestError", "Invalid video ID")
    ELSE IF auth = Unauthorized
    THEN Thrown("UserNotAuthenticatedError", "Unauthorized")
    ELSE IF getVideo(store, videoId) = Absent
    THEN Thrown("NotFoundError", "Video not found")
    ELSE Pending

\* RequestGate with the record looked up before the credentials are checked
RequestGateLookupFirst(videoId, auth, store) ==
    IF videoId = NoParam
    THEN Thrown("BadRequestError", "Invalid video ID")
    ELSE IF getVideo(store, videoId) = Absent
    THEN Thrown("NotFoundError", "Video not found")
    ELSE IF auth = Unauthorized
    THEN Thrown("UserNotAuthenticatedError", "Unauthorized")
    ELSE IF getVideo(store, videoId).userID # auth
    THEN Thrown("UserForbiddenError", "User: " \o auth \o " is not authorized to update this video")
    ELSE Pending

\* lines 16-32: the error thrown before the form is read, or Pending
RequestGate(videoId, auth, store) ==
    IF videoId = NoParam
    THEN Thrown("BadRequestError", "Invalid video ID")
    ELSE IF auth = Unauthorized
    THEN Thrown("UserNotAuthenticatedError", "Unauthorized")
    ELSE IF getVideo(store, videoId) = Absent
    THEN Thrown("NotFoundError", "Video not found")
    ELSE IF getVideo(store, videoId).userID # auth
    THEN Thrown("UserForbiddenError", "User: " \o auth \o " is not authorized to update this video")
    ELSE Pending

\* FileGate rejecting a file of exactly the maximum size (>= for >)
FileGateExclusive(file) ==
    IF file.kind # "File"
    THEN Thrown("BadRequestError", "Video file missing")
    ELSE IF file.size >= MAX_UPLOAD_SIZE
    THEN Thrown("BadRequestError", "Video file exceeds the maximum allowed size of 1GB")
    ELSE IF file.type # "video/mp4"
    THEN Thrown("BadRequestError", "Invalid file type. Only MP4 allowed.")
    ELSE Pending

\* lines 35-47: the error thrown for the form field "video", or Pending
FileGate(file) ==
    IF file.kind # "File"
    THEN Thrown("BadRequestError", "Video file missing")
    ELSE IF file.size > MAX_UPLOAD_SIZE
    THEN Thrown("BadRequestError", "Video file exceeds the maximum allowed size of 1GB")
    ELSE IF file.type # "video/mp4"
    THEN Thrown("BadRequestError", "Invalid file type. Only MP4 allowed.")
    ELSE Pending

----------------------------------------------------------------------------
(* State *)

Request(id, auth, file) == [videoId |-> id, auth |-> auth, file |-> file]
NoInput == Request(NoParam, Unauthorized, Unread)

\* The requests served: every path parameter and credential with a valid and
\* with an oversized file of the wrong type, and the owner's requests with
\* every form value.
ValidFile     == FormField("File", SmallSize, "video/mp4", "landscape")
OversizedFile == FormField("File", MAX_UPLOAD_SIZE + 1, "video/webm", "corrupt")
Requests ==
    {Request(id, auth, file) : id \in ParamValues, auth \in Users \cup {Unauthorized},
                               file \in {ValidFile, OversizedFile}}
    \cup {Request(id, Owner(id), file) : id \in VideoIds, file \in FormValues}

\* stored: puts to object storage that succeeded; the others count calls started
NoCalls == [write |-> 0, ffprobe |-> 0, ffmpeg |-> 0, put |-> 0, stored |-> 0,
            update |-> 0, rmTemp |-> 0, rmProcessed |-> 0]
NoRm    == [temp |-> "idle", processed |-> "idle"]
NoProbe == ProbeResult(0, "", FALSE, <<>>)
NotRun  == Raised(Pending)

HandlerInit ==
    /\ db = [id \in VideoIds |-> Record(id, Owner(id), NoURL)]
    /\ fs = [p \in Paths |-> Absent]
    /\ s3 = [k \in Keys |-> Absent]
    /\ pc = [r \in Reqs |-> "idle"]
    /\ input = [r \in Reqs |-> NoInput]
    /\ video = [r \in Reqs |-> Absent]
    /\ aspect = [r \in Reqs |-> None]
    /\ calls = [r \in Reqs |-> NoCalls]
    /\ rmState = [r \in Reqs |-> NoRm]
    /\ outcome = [r \in Reqs |-> Pending]

Init ==
    /\ HandlerInit
    /\ probeIn = NoProbe
    /\ probeOut = NotRun

\* the request ends with error e
Throw(r, e) ==
    /\ outcome' = [outcome EXCEPT ![r] = e]
    /\ pc' = [pc EXCEPT ![r] = "done"]

Count(r, op) == calls' = [calls EXCEPT ![r][op] = @ + 1]

----------------------------------------------------------------------------
(* handlerUploadVideo, one action per segment between awaits *)

\* lines 16-34: the request arrives; path parameter, credentials, record lookup
\* and ownership are checked, then the form is awaited
Receive(r) ==
    /\ pc[r] = "idle"
    /\ \E req \in Requests :
          /\ input' = [input EXCEPT ![r] = req]
          /\ LET e == RequestGate(req.videoId, req.auth, db)
             IN  IF e # Pending
                 THEN Throw(r, e) /\ UNCHANGED video
                 ELSE /\ video' = [video EXCEPT ![r] = getVideo(db, req.videoId)]
                      /\ pc' = [pc EXCEPT ![r] = "form"]
                      /\ UNCHANGED outcome
    /\ UNCHANGED <<db, fs, s3, aspect, calls, rmState, probeIn, probeOut>>

\* lines 34-50: the form has arrived; the file's shape, size and type are
\* checked, then Bun.write is started
Form(r) ==
    /\ pc[r] = "form"
    /\ LET e == FileGate(input[r].file)
       IN  IF e # Pending
           THEN Throw(r, e) /\ UNCHANGED calls
           ELSE /\ pc' = [pc EXCEPT ![r] = "write"]
                /\ Count(r, "write")
                /\ UNCHANGED outcome
    /\ UNCHANGED <<db, fs, s3, input, video, aspect, rmState, probeIn, probeOut>>

\* line 50: Bun.write stores the upload at the temp path; ffprobe is spawned
WriteTemp(r) ==
    /\ pc[r] = "write"
    /\ fs' = [fs EXCEPT ![TempFilePath(input[r].videoId)] =
                 FileOf(Bytes(r, input[r].file.media, FALSE), r)]
    /\ pc' = [pc EXCEPT ![r] = "probe"]
    /\ Count(r, "ffprobe")
    /\ UNCHANGED <<db, s3, input, video, aspect, rmState, outcome, probeIn, probeOut>>

\* what ffprobe reports for the file now at `path`
Ffprobe(path) ==
    IF fs[path] = Absent
    THEN ProbeResult(1, "No such file or directory", FALSE, <<>>)
    ELSE FfprobeOn(fs[path].bytes.media)

\* Probe with one retry of a failed ffprobe
ProbeRetried(r) ==
    /\ pc[r] = "probe"
    /\ LET res == getVideoAspectRatio(Ffprobe(TempFilePath(input[r].videoId)))
       IN  IF ~res.ok /\ calls[r].ffprobe < 2
           THEN Count(r, "ffprobe") /\ UNCHANGED <<aspect, pc, outcome>>
           ELSE IF ~res.ok
           THEN Throw(r, res.error) /\ UNCHANGED <<aspect, calls>>
           ELSE /\ aspect' = [aspect EXCEPT ![r] = res.value]
                /\ pc' = [pc EXCEPT ![r] = "transcode"]
                /\ Count(r, "ffmpeg")
                /\ UNCHANGED outcome
    /\ UNCHANGED <<db, fs, s3, input, video, rmState, probeIn, probeOut>>

\* lines 52, 71-110 and 53, 113-132: ffprobe has read the temp file and exited;
\* the classification is computed and ffmpeg is spawned
Probe(r) ==
    /\ pc[r] = "probe"
    /\ LET res == getVideoAspectRatio(Ffprobe(TempFilePath(input[r].videoId)))
       IN  IF ~res.ok
           THEN Throw(r, res.error) /\ UNCHANGED <<aspect, calls>>
           ELSE /\ aspect' = [aspect EXCEPT ![r] = res.value]
                /\ pc' = [pc EXCEPT ![r] = "transcode"]
                /\ Count(r, "ffmpeg")
                /\ UNCHANGED outcome
    /\ UNCHANGED <<db, fs, s3, input, video, rmState, probeIn, probeOut>>

\* lines 53-56, 134-141: ffmpeg has exited.  It fails when its input is missing
\* and may fail for any other reason (an unwritable or already existing output
\* path, a full disk); on success the processed file holds the input's bytes
\* rewritten, and the upload to object storage is started
Transcode(r) ==
    /\ pc[r] = "transcode"
    /\ LET inputFilePath == TempFilePath(input[r].videoId)
           processedFilePath == ProcessedFilePath(inputFilePath)
       IN  \E exitCode \in {0, 1} :
              IF exitCode # 0
              THEN /\ Throw(r, Thrown("Error", "FFmpeg error: "))
                   /\ UNCHANGED <<fs, calls>>
              ELSE /\ fs[inputFilePath] # Absent
                   /\ fs' = [fs EXCEPT ![processedFilePath] =
                                FileOf([fs[inputFilePath].bytes EXCEPT !.faststart = TRUE], r)]
                   /\ pc' = [pc EXCEPT ![r] = "upload"]
                   /\ Count(r, "put")
                   /\ UNCHANGED outcome
    /\ UNCHANGED <<db, s3, input, video, aspect, rmState, probeIn, probeOut>>

\* Upload with a failed put not thrown: the handler goes on to the update
UploadFailureIgnored(r) ==
    /\ pc[r] = "upload"
    /\ LET processedFilePath == ProcessedFilePath(TempFilePath(input[r].videoId))
           key == Key(aspect[r], input[r].videoId)
       IN  \E stored \in BOOLEAN :
              IF ~stored
              THEN /\ pc' = [pc EXCEPT ![r] = "update"]
                   /\ UNCHANGED <<s3, calls, outcome>>
              ELSE /\ fs[processedFilePath] # Absent
                   /\ s3' = uploadVideoToS3(s3, key, fs[processedFilePath], r)
                   /\ pc' = [pc EXCEPT ![r] = "update"]
                   /\ Count(r, "stored")
                   /\ UNCHANGED outcome
    /\ UNCHANGED <<db, fs, input, video, aspect, rmState, probeIn, probeOut>>

\* line 56: the upload has completed or failed (it fails when the processed file
\* is missing, and may fail on any transport or storage error)
Upload(r) ==
    /\ pc[r] = "upload"
    /\ LET processedFilePath == ProcessedFilePath(TempFilePath(input[r].videoId))
           key == Key(aspect[r], input[r].videoId)
       IN  \E stored \in BOOLEAN :
              IF ~stored
              THEN Throw(r, Thrown("Error", "upload failed")) /\ UNCHANGED <<s3, calls>>
              ELSE /\ fs[processedFilePath] # Absent
                   /\ s3' = uploadVideoToS3(s3, key, fs[processedFilePath], r)
                   /\ pc' = [pc EXCEPT ![r] = "update"]
                   /\ Count(r, "stored")
                   /\ UNCHANGED outcome
    /\ UNCHANGED <<db, fs, input, video, aspect, rmState, probeIn, probeOut>>

\* lines 58-65: the URL is set on the record read at line 24, the record is
\* stored, and both removals are started
UpdateRecord(r) ==
    /\ pc[r] = "update"
    /\ LET key == Key(aspect[r], input[r].videoId)
           updated == [video[r] EXCEPT !.videoURL = VideoURL(key)]
       IN  /\ video' = [video EXCEPT ![r] = updated]
           /\ db' = updateVideo(db, updated)
    /\ calls' = [calls EXCEPT ![r].update = @ + 1, ![r].rmTemp = @ + 1,
                              ![r].rmProcessed = @ + 1]
    /\ rmState' = [rmState EXCEPT ![r] = [temp |-> "pending", processed |-> "pending"]]
    /\ pc' = [pc EXCEPT ![r] = "cleanup"]
    /\ UNCHANGED <<fs, s3, input, aspect, outcome, probeIn, probeOut>>

\* lines 62-67: one rm() settles.  With force it succeeds on a missing file; it
\* can still fail (EACCES, EBUSY, EIO).  Promise.all rejects with the first
\* rejection and the handler throws; when both have succeeded the handler
\* responds.  The other rm() runs on either way.
Rm(r, which, other, path) ==
    /\ pc[r] = "cleanup"
    /\ rmState[r][which] = "pending"
    /\ \E removed \in BOOLEAN :
          /\ fs' = IF removed THEN [fs EXCEPT ![path] = Absent] ELSE fs
          /\ rmState' = [rmState EXCEPT ![r][which] =
                            IF removed THEN "removed" ELSE "failed"]
          /\ outcome' =
                IF outcome[r] # Pending THEN outcome
                ELSE IF ~removed
                THEN [outcome EXCEPT ![r] = Thrown("SystemError", "rm failed")]
                ELSE IF rmState[r][other] = "removed"
                THEN [outcome EXCEPT ![r] = respondWithJSON(200, video[r])]
                ELSE outcome
    /\ pc' = [pc EXCEPT ![r] =
                 IF rmState[r][other] = "pending" THEN "cleanup" ELSE "done"]
    /\ UNCHANGED <<db, s3, input, video, aspect, calls, probeIn, probeOut>>

RmTemp(r) ==
    Rm(r, "temp", "processed", TempFilePath(input[r].videoId))

RmProcessed(r) ==
    Rm(r, "processed", "temp", ProcessedFilePath(TempFilePath(input[r].videoId)))

Next ==
    \E r \in Reqs :
        \/ Receive(r)
        \/ Form(r)
        \/ WriteTemp(r)
        \/ Probe(r)
        \/ Transcode(r)
        \/ Upload(r)
        \/ UpdateRecord(r)
        \/ RmTemp(r)
        \/ RmProcessed(r)

Spec == Init /\ [][Next]_vars

----------------------------------------------------------------------------
(* getVideoAspectRatio on its own: the subprocess' result is drawn from    *)
(* ProbeInputs and the function of lines 94-110 is applied to it           *)

Dims == ((0..MaxDim) \X (0..MaxDim))
        \cup {<<1920, 1080>>, <<1080, 1920>>, <<1000, 1000>>}
LaterStreams == {<<9, 16>>, <<16, 9>>}

ProbeInputs ==
    {ProbeResult(2, "bad file", FALSE, <<>>), ProbeResult(1, "", TRUE, << <<16, 9>> >>),
     ProbeResult(0, "", FALSE, <<>>), ProbeResult(0, "", TRUE, <<>>)}
    \cup {ProbeResult(0, "", TRUE, <<d>>) : d \in Dims}
    \cup {ProbeResult(0, "", TRUE, <<d, e>>) : d \in Dims, e \in LaterStreams}

InitProbe ==
    /\ HandlerInit
    /\ probeIn \in ProbeInputs
    /\ probeOut = NotRun

RunProbe ==
    /\ probeOut = NotRun
    /\ probeOut' = getVideoAspectRatio(probeIn)
    /\ UNCHANGED <<handlerVars, probeIn>>

NextProbe == RunProbe

SpecProbe == InitProbe /\ [][NextProbe]_vars

----------------------------------------------------------------------------
(* Properties *)

TempOf(r) == TempFilePath(input[r].videoId)
ProcessedOf(r) == ProcessedFilePath(TempOf(r))
Failed(r) == outcome[r].kind = "error"

\* C1: the stored record changes only in the update step of a request whose
\* authenticated user is the record's owner and whose own put to object
\* storage has succeeded; the owner never changes.  No other step, and so no
\* request that has thrown before its update, changes the record.
URLWrittenByOwnerAfterUpload ==
    [][\A id \in VideoIds :
          db'[id] # db[id] =>
             \E r \in Reqs :
                /\ calls'[r].update = calls[r].update + 1
                /\ outcome[r] = Pending
                /\ input[r].videoId = id
                /\ input[r].auth = db[id].userID
                /\ calls[r].stored = 1
                /\ s3[Key(aspect[r], id)] # Absent
                /\ db'[id] = [db[id] EXCEPT !.videoURL = VideoURL(Key(aspect[r], id))]
      ]_vars

\* a record's URL has been set by one request while another has failed after
\* writing its temp file
URLWrittenWitness ==
    \E r, q \in Reqs :
        /\ calls[r].update = 1
        /\ db[input[r].videoId].videoURL = VideoURL(Key(aspect[r], input[r].videoId))
        /\ Failed(q) /\ calls[q].write = 1 /\ calls[q].update = 0

\* C2: a request whose authenticated identity is not the owner of the existing
\* record ends with UserForbiddenError at once and starts no temp file write,
\* no subprocess, no put, no record update and no removal.
NonOwnerForbidden ==
    \A r \in Reqs :
        ( /\ pc[r] # "idle"
          /\ input[r].auth \in Users
          /\ input[r].videoId \in DOMAIN db
          /\ input[r].auth # db[input[r].videoId].userID )
        => /\ pc[r] = "done"
           /\ outcome[r].kind = "error"
           /\ outcome[r].class = "UserForbiddenError"
           /\ calls[r] = NoCalls
           /\ video[r] = Absent
           /\ \A p \in Paths : fs[p] # Absent => fs[p].writer # r
           /\ \A k \in Keys : s3[k] # Absent => s3[k].uploader # r

NonOwnerWitness ==
    \E r \in Reqs :
        /\ pc[r] = "done"
        /\ input[r].videoId = "v1" /\ input[r].auth = "u2"
        /\ outcome[r].class = "UserForbiddenError"

\* the size gate's error
TooLarge == Thrown("BadRequestError", "Video file exceeds the maximum allowed size of 1GB")

\* C3 as stated: every request with a file larger than 2^30 bytes ends with
\* BadRequestError and without a temp file write, and a file of at most 2^30
\* bytes is not rejected for its size.
OversizedRejectedBadRequest ==
    \A r \in Reqs :
        (pc[r] = "done" /\ input[r].file.kind = "File") =>
            /\ input[r].file.size > MAX_UPLOAD_SIZE =>
                  (outcome[r].class = "BadRequestError" /\ calls[r].write = 0)
            /\ input[r].file.size <= MAX_UPLOAD_SIZE => outcome[r] # TooLarge

\* C3 amended: no request with a file larger than 2^30 bytes writes a temp
\* file; one that has passed the gates before the form (path parameter,
\* credentials, record lookup, ownership) ends with the size gate's
\* BadRequestError.  A file of at most 2^30 bytes is not rejected for its size,
\* and with type video/mp4 it is written to the temp path.
OversizedRejectedAtSizeGate ==
    \A r \in Reqs :
        (pc[r] \notin {"idle", "form"} /\ input[r].file.kind = "File") =>
            /\ input[r].file.size > MAX_UPLOAD_SIZE =>
                  /\ calls[r].write = 0
                  /\ pc[r] = "done"
                  /\ RequestGate(input[r].videoId, input[r].auth, db) = Pending
                        => outcome[r] = TooLarge
            /\ input[r].file.size <= MAX_UPLOAD_SIZE =>
                  /\ outcome[r] # TooLarge
                  /\ ( /\ RequestGate(input[r].videoId, input[r].auth, db) = Pending
                       /\ input[r].file.type = "video/mp4" ) => calls[r].write = 1

\* an owner's file of 2^30 + 1 bytes is rejected at the size gate and an
\* owner's file of exactly 2^30 bytes is written to the temp path
SizeGateWitness ==
    \E r, q \in Reqs :
        /\ input[r].file.size = MAX_UPLOAD_SIZE + 1 /\ outcome[r] = TooLarge
        /\ input[q].file.size = MAX_UPLOAD_SIZE /\ calls[q].write = 1

\* C4: the classification returned for a probe that exited with 0 and printed
\* at least one stream depends on the first stream's width and height only:
\* "landscape" exactly when 1.7 < width/height < 1.8, "portrait" exactly when
\* 0.5 < width/height < 0.6, "other" otherwise, the bounds themselves included
\* in "other"; 1920x1080 is landscape, 1080x1920 portrait, 1000x1000 other.
AspectClassification ==
    (probeOut # NotRun /\ probeIn.exitCode = 0 /\ probeIn.hasStreams
        /\ Len(probeIn.streams) > 0) =>
        LET w == probeIn.streams[1][1]
            h == probeIn.streams[1][2]
            c == probeOut.value
            landscape == h > 0 /\ 17 * h < 10 * w /\ 10 * w < 18 * h
            portrait  == h > 0 /\ 5 * h < 10 * w /\ 10 * w < 6 * h
        IN  /\ probeOut.ok
            /\ c \in Classes
            /\ c = "landscape" <=> landscape
            /\ c = "portrait" <=> portrait
            /\ (h > 0 /\ 10 * w \in {17 * h, 18 * h, 5 * h, 6 * h}) => c = "other"
            /\ <<w, h>> = <<1920, 1080>> => c = "landscape"
            /\ <<w, h>> = <<1080, 1920>> => c = "portrait"
            /\ <<w, h>> = <<1000, 1000>> => c = "other"

\* a first stream of ratio exactly 1.7, followed by a portrait stream, has been
\* classified "other"
AspectBoundaryWitness ==
    /\ probeOut.ok
    /\ probeIn.streams = << <<17, 10>>, <<9, 16>> >>
    /\ probeOut.value = "other"

\* C5: once the owner's request with a valid mp4 within the size limit, whose
\* probe, transcode and put have succeeded, has completed, it has answered 200
\* with the updated record, the stored URL is the public URL of the key the
\* bytes were put under, and both temp files are absent.
EndToEndSuccess ==
    [][\A r \in Reqs :
          ( /\ outcome[r] = Pending /\ outcome'[r] # Pending
            /\ FileGate(input[r].file) = Pending
            /\ input[r].auth = Owner(input[r].videoId)
            /\ calls[r].stored = 1 )
          => LET id  == input[r].videoId
                 key == Key(aspect[r], id)
             IN  /\ outcome'[r] = respondWithJSON(200, db'[id])
                 /\ db'[id].videoURL = VideoURL(key)
                 /\ s3'[key] # Absent
                 /\ fs'[TempOf(r)] = Absent
                 /\ fs'[ProcessedOf(r)] = Absent
      ]_vars

\* C6: a removal that fails does not make the request fail - the request
\* answers 200 with the updated record - and both removals are started
\* whichever of them fails or settles first.
CleanupBestEffort ==
    \A r \in Reqs :
        (rmState[r].temp = "failed" \/ rmState[r].processed = "failed") =>
            /\ calls[r].rmTemp = 1 /\ calls[r].rmProcessed = 1
            /\ ~Failed(r)
            /\ pc[r] = "done" => outcome[r] = respondWithJSON(200, video[r])

\* the file at path p was written by another request that is still in flight
Foreign(r, p) ==
    /\ fs[p] # Absent
    /\ fs[p].writer # r
    /\ pc[fs[p].writer] # "done"

\* C7: no step of a request overwrites, reads or removes a temp file written
\* by another request in flight, and the bytes a request puts into object
\* storage are those of its own upload.
RequestsShareNoTempFile ==
    [][\A r \in Reqs :
          /\ (pc[r] = "write" /\ pc'[r] = "probe") => ~Foreign(r, TempOf(r))
          /\ (pc[r] = "probe" /\ pc'[r] # "probe") => ~Foreign(r, TempOf(r))
          /\ (pc[r] = "transcode" /\ pc'[r] = "upload") =>
                ~Foreign(r, TempOf(r)) /\ ~Foreign(r, ProcessedOf(r))
          /\ (pc[r] = "upload" /\ pc'[r] = "update") =>
                /\ ~Foreign(r, ProcessedOf(r))
                /\ s3'[Key(aspect[r], input[r].videoId)].bytes.origin = r
          /\ (rmState[r].temp = "pending" /\ rmState'[r].temp = "removed") =>
                ~Foreign(r, TempOf(r))
          /\ (rmState[r].processed = "pending" /\ rmState'[r].processed = "removed") =>
                ~Foreign(r, ProcessedOf(r))
      ]_vars

\* C8: a request that throws after its temp file was written and before the
\* record update has started no removal, and when it terminates its temp file
\* exists, and so does the processed file if its ffmpeg produced one.
NoCleanupOnFailure ==
    [][\A r \in Reqs :
          ( /\ pc[r] # "done" /\ pc'[r] = "done"
            /\ Failed(r)'
            /\ calls[r].write = 1
            /\ calls[r].update = 0 )
          => /\ calls'[r].rmTemp = 0 /\ calls'[r].rmProcessed = 0
             /\ rmState'[r] = NoRm
             /\ fs'[TempOf(r)] # Absent
             /\ calls[r].put = 1 => fs'[ProcessedOf(r)] # Absent
      ]_vars

\* the gates before the temp file write, in the order C9 gives them
GateOrder == <<"param", "auth", "lookup", "owner", "file", "size", "type">>

GateFails(g, req) ==
    CASE g = "param"  -> req.videoId = NoParam
      [] g = "auth"   -> req.auth = Unauthorized
      [] g = "lookup" -> req.videoId \notin VideoIds
      [] g = "owner"  -> req.auth # Owner(req.videoId)
      [] g = "file"   -> req.file.kind # "File"
      [] g = "size"   -> req.file.size > 2^30
      [] g = "type"   -> req.file.type # "video/mp4"

GateErrorClass(g) ==
    CASE g = "auth"   -> "UserNotAuthenticatedError"
      [] g = "lookup" -> "NotFoundError"
      [] g = "owner"  -> "UserForbiddenError"
      [] OTHER        -> "BadRequestError"

GateErrorMessages(g) ==
    CASE g = "param" -> {"Invalid video ID"}
      [] g = "file"  -> {"Video file missing"}
      [] g = "size"  -> {"Video file exceeds the maximum allowed size of 1GB"}
      [] g = "type"  -> {"Invalid file type. Only MP4 allowed."}
      [] g = "auth"  -> {"Unauthorized"}
      [] g = "lookup" -> {"Video not found"}
      [] g = "owner" -> {"User: " \o u \o " is not authorized to update this video" : u \in Users}

\* index in GateOrder of the first gate the request fails, 0 when it passes all
FirstFailing(req) ==
    LET failing == {i \in DOMAIN GateOrder : GateFails(GateOrder[i], req)}
    IN  IF failing = {} THEN 0
        ELSE CHOOSE i \in failing : \A j \in failing : i <= j

ProbeErrorMessages ==
    {"ffprobe error: bad file", "ffprobe error: No such file or directory",
     "No video streams found"}

\* C9: a request ends with the error of the first gate it fails in the order
\* path parameter, credentials, record lookup, ownership, file field, size,
\* type, having started nothing; one that passes them all starts temp write,
\* probe, transcode, put, record update and the removals in that order, each
\* at most once and each only after the one before it, and after the step
\* that fails it starts none.
GatesInFixedOrder ==
    \A r \in Reqs :
        pc[r] # "idle" =>
            LET i == FirstFailing(input[r])
                c == calls[r]
            IN  /\ i \in 1..4 => pc[r] = "done"
                /\ i \in 5..7 => pc[r] \in {"form", "done"}
                /\ (i # 0 /\ pc[r] = "done") =>
                      /\ Failed(r)
                      /\ outcome[r].class = GateErrorClass(GateOrder[i])
                      /\ outcome[r].message \in GateErrorMessages(GateOrder[i])
                /\ (i # 0 \/ pc[r] = "form") => c = NoCalls /\ outcome[r].kind # "response"
                /\ c.write <= 1
                /\ c.ffprobe <= c.write
                /\ c.ffmpeg <= c.ffprobe
                /\ c.put <= c.ffmpeg
                /\ c.stored <= c.put
                /\ c.update <= c.stored
                /\ c.rmTemp = c.update /\ c.rmProcessed = c.update
                /\ (i = 0 /\ Failed(r) /\ c.update = 0) =>
                      /\ pc[r] = "done"
                      /\ outcome[r].class = "Error"
                      /\ outcome[r].message \in ProbeErrorMessages
                            <=> (c.ffprobe = 1 /\ c.ffmpeg = 0)
                      /\ outcome[r].message = "FFmpeg error: "
                            <=> (c.ffmpeg = 1 /\ c.put = 0)
                      /\ outcome[r].message = "upload failed"
                            <=> (c.put = 1 /\ c.stored = 0)
                /\ outcome[r].kind = "response" =>
                      c.update = 1 /\ rmState[r] = [temp |-> "removed", processed |-> "removed"]

\* an unauthenticated request for a video without a record has been answered
\* Unauthorized, and a non-owner with an oversized file of the wrong type
\* Forbidden
GateOrderWitness ==
    \E r, q \in Reqs :
        /\ input[r].videoId = "v2" /\ input[r].auth = Unauthorized
        /\ outcome[r].class = "UserNotAuthenticatedError"
        /\ input[q].videoId = "v1" /\ input[q].auth = "u2"
        /\ input[q].file = OversizedFile
        /\ outcome[q].class = "UserForbiddenError"

\* C10: a probe that exits non-zero, or exits zero without streams, makes the
\* request throw at once (with the captured stderr text on a non-zero exit);
\* a request that throws at the transcode ends there.  In both cases the
\* subprocess has been started exactly once, nothing is put into object
\* storage and no record is changed, in that step or later.
ProbeTranscodeTerminal ==
    [][\A r \in Reqs :
          /\ (pc[r] = "probe" /\ (pc'[r] # "probe" \/ calls'[r] # calls[r])) =>
                LET res == Ffprobe(TempOf(r))
                IN  (res.exitCode # 0 \/ ~res.hasStreams \/ Len(res.streams) = 0) =>
                        /\ pc'[r] = "done" /\ Failed(r)'
                        /\ outcome'[r].class = "Error"
                        /\ res.exitCode # 0 =>
                              outcome'[r].message = "ffprobe error: " \o res.stderr
                        /\ res.exitCode = 0 =>
                              outcome'[r].message = "No video streams found"
                        /\ calls'[r] = [NoCalls EXCEPT !.write = 1, !.ffprobe = 1]
                        /\ s3' = s3 /\ db' = db
          /\ (pc[r] = "transcode" /\ pc'[r] # "transcode") =>
                /\ fs[TempOf(r)] = Absent => Failed(r)'
                /\ Failed(r)' =>
                      /\ pc'[r] = "done"
                      /\ outcome'[r].message = "FFmpeg error: "
                      /\ calls'[r] = [NoCalls EXCEPT !.write = 1, !.ffprobe = 1, !.ffmpeg = 1]
                      /\ s3' = s3 /\ db' = db
          /\ (Failed(r) /\ calls[r].put = 0) =>
                /\ calls'[r] = calls[r] /\ pc'[r] = "done"
                /\ \A k \in Keys : s3'[k] # s3[k] => s3'[k].uploader # r
                /\ db' # db => \E q \in Reqs \ {r} : calls'[q].update # calls[q].update
      ]_vars

\* one request has thrown on ffprobe's non-zero exit and another on ffmpeg's
ProbeTranscodeWitness ==
    \E r, q \in Reqs :
        /\ pc[r] = "done" /\ outcome[r].message = "ffprobe error: bad file"
        /\ calls[r].ffprobe = 1 /\ calls[r].ffmpeg = 0
        /\ pc[q] = "done" /\ outcome[q].message = "FFmpeg error: "
        /\ calls[q].ffmpeg = 1 /\ calls[q].put = 0

====
